---------------------------- MODULE Spec2Model ----------------------------
(***************************************************************************)
(* A model of the Slack front end of the claude-code-slack-bot:            *)
(*   - SecretMasker (maskValue, collectEnvSecrets, maskText) and the send  *)
(*     paths that use it, over texts that are sequences of characters;     *)
(*   - SlackHandler.handleMessage as one process per turn, interleaved at  *)
(*     its await points, with the chat surface and the backend stream as   *)
(*     nondeterministic collaborators.                                      *)
(***************************************************************************)
EXTENDS Integers, Sequences, FiniteSets, TLC

(***************************************************************************)
(* Characters.  A text is a sequence of one-character strings.             *)
(***************************************************************************)
LowerSeq ==
  << "a","b","c","d","e","f","g","h","i","j","k","l","m",
     "n","o","p","q","r","s","t","u","v","w","x","y","z" >>

UpperSeq ==
  << "A","B","C","D","E","F","G","H","I","J","K","L","M",
     "N","O","P","Q","R","S","T","U","V","W","X","Y","Z" >>

Range(s) == { s[i] : i \in 1..Len(s) }

LowerCase == Range(LowerSeq)

UpperCase == Range(UpperSeq)

Digits == { "0","1","2","3","4","5","6","7","8","9" }

AlphaNum == LowerCase \cup UpperCase \cup Digits

Whitespace == { " ", "\n", "\t" }

SetMax(S) == CHOOSE x \in S : \A y \in S : y <= x

\* String.prototype.toUpperCase on one character
ToUpperChar(c) ==
  IF c \in LowerCase
    THEN UpperSeq[CHOOSE i \in 1..Len(LowerSeq) : LowerSeq[i] = c]
    ELSE c

ToUpper(s) == [ i \in 1..Len(s) |-> ToUpperChar(s[i]) ]

\* String.prototype.includes
Includes(t, s) ==
  \E i \in 1..(Len(t) - Len(s) + 1) : SubSeq(t, i, i + Len(s) - 1) = s

\* text.split(s).join(m): every occurrence of s, left to right, not overlapping
RECURSIVE SplitJoinFrom(_, _, _, _)
SplitJoinFrom(t, i, s, m) ==
  IF i > Len(t) THEN << >>
  ELSE IF i + Len(s) - 1 <= Len(t) /\ SubSeq(t, i, i + Len(s) - 1) = s
    THEN m \o SplitJoinFrom(t, i + Len(s), s, m)
    ELSE << t[i] >> \o SplitJoinFrom(t, i + 1, s, m)

SplitJoin(t, s, m) == SplitJoinFrom(t, 1, s, m)

\* length of the longest run of characters of cls that starts at position i
RECURSIVE RunLen(_, _, _)
RunLen(t, i, cls) ==
  IF i <= Len(t) /\ t[i] \in cls THEN 1 + RunLen(t, i + 1, cls) ELSE 0

(***************************************************************************)
(* SECRET_ENV_KEYWORDS and SECRET_PATTERNS.  Every pattern is a literal,   *)
(* optionally \s+, then a character class repeated at least min times.     *)
(***************************************************************************)
SECRET_ENV_KEYWORDS ==
  << << "T","O","K","E","N" >>,
     << "S","E","C","R","E","T" >>,
     << "K","E","Y" >>,
     << "P","A","S","S","W","O","R","D" >>,
     << "C","R","E","D","E","N","T","I","A","L" >>,
     << "A","P","I","_","K","E","Y" >> >>

SECRET_PATTERNS ==
  << [lit |-> << "x","o","x","b","-" >>, ws |-> FALSE,
      cls |-> AlphaNum \cup {"-"}, min |-> 1],
     [lit |-> << "x","a","p","p","-" >>, ws |-> FALSE,
      cls |-> AlphaNum \cup {"-"}, min |-> 1],
     [lit |-> << "x","o","x","p","-" >>, ws |-> FALSE,
      cls |-> AlphaNum \cup {"-"}, min |-> 1],
     [lit |-> << "x","o","x","s","-" >>, ws |-> FALSE,
      cls |-> AlphaNum \cup {"-"}, min |-> 1],
     [lit |-> << "s","k","-","a","n","t","-" >>, ws |-> FALSE,
      cls |-> AlphaNum \cup {"-"}, min |-> 1],
     [lit |-> << "s","k","-" >>, ws |-> FALSE,
      cls |-> AlphaNum, min |-> 20],
     [lit |-> << "g","h","p","_" >>, ws |-> FALSE,
      cls |-> AlphaNum, min |-> 36],
     [lit |-> << "g","h","s","_" >>, ws |-> FALSE,
      cls |-> AlphaNum, min |-> 36],
     [lit |-> << "g","h","o","_" >>, ws |-> FALSE,
      cls |-> AlphaNum, min |-> 36],
     [lit |-> << "g","i","t","h","u","b","_","p","a","t","_" >>, ws |-> FALSE,
      cls |-> AlphaNum \cup {"_"}, min |-> 20],
     [lit |-> << "g","l","p","a","t","-" >>, ws |-> FALSE,
      cls |-> AlphaNum \cup {"-"}, min |-> 20],
     [lit |-> << "B","e","a","r","e","r" >>, ws |-> TRUE,
      cls |-> AlphaNum \cup {".", "_", "-"}, min |-> 20],
     [lit |-> << "B","a","s","i","c" >>, ws |-> TRUE,
      cls |-> AlphaNum \cup {"+", "/", "="}, min |-> 20] >>

(***************************************************************************)
(* maskValue                                                               *)
(***************************************************************************)
\* value.match(/^([a-zA-Z_\-]+[-_])/): the length of the match, 0 for none.
\* The greedy run backtracks to the last separator inside it.
SeparatorMatchLen(value) ==
  LET run   == RunLen(value, 1, LowerCase \cup UpperCase \cup {"_", "-"})
      cands == { n \in 2..run : value[n] \in {"-", "_"} }
  IN  IF cands = {} THEN 0 ELSE SetMax(cands)

Ellipsis == << ".", ".", "." >>

Stars == << "*", "*", "*" >>

maskValue(value) ==
  IF Len(value) < 8 THEN Stars
  ELSE LET n      == SeparatorMatchLen(value)
           prefix == IF n > 0 THEN SubSeq(value, 1, n) ELSE SubSeq(value, 1, 4)
           suffix == SubSeq(value, Len(value) - 3, Len(value))
       IN  prefix \o Ellipsis \o suffix

(***************************************************************************)
(* SecretMasker.collectEnvSecrets: env is a sequence of [key, value]       *)
(***************************************************************************)
isSecret(key) ==
  \E k \in 1..Len(SECRET_ENV_KEYWORDS) :
     Includes(ToUpper(key), SECRET_ENV_KEYWORDS[k])

\* Array.prototype.sort((a, b) => b.value.length - a.value.length): stable
RECURSIVE InsertByLength(_, _)
InsertByLength(sorted, e) ==
  IF sorted = << >> THEN << e >>
  ELSE IF Len(Head(sorted).value) >= Len(e.value)
    THEN << Head(sorted) >> \o InsertByLength(Tail(sorted), e)
    ELSE << e >> \o sorted

RECURSIVE SortByLengthDesc(_)
SortByLengthDesc(s) ==
  IF s = << >> THEN << >>
  ELSE InsertByLength(SortByLengthDesc(SubSeq(s, 1, Len(s) - 1)), s[Len(s)])

collectEnvSecrets(env) ==
  LET keep(e) == Len(e.value) >= 8 /\ isSecret(e.key)
      picked  == SelectSeq(env, keep)
  IN  SortByLengthDesc(
        [ i \in 1..Len(picked) |->
            [value |-> picked[i].value, masked |-> maskValue(picked[i].value)] ])

(***************************************************************************)
(* SecretMasker.maskText                                                   *)
(***************************************************************************)
\* the length of the match of pattern p that starts at position i, 0 for none
MatchLen(t, i, p) ==
  LET l == Len(p.lit)
  IN  IF i + l - 1 > Len(t) \/ SubSeq(t, i, i + l - 1) # p.lit THEN 0
      ELSE LET w == IF p.ws THEN RunLen(t, i + l, Whitespace) ELSE 0
               c == RunLen(t, i + l + w, p.cls)
           IN  IF (p.ws /\ w = 0) \/ c < p.min THEN 0 ELSE l + w + c

\* masked.replace(pattern, match => maskValue(match)) with the g flag
RECURSIVE ReplacePatternFrom(_, _, _)
ReplacePatternFrom(t, i, p) ==
  IF i > Len(t) THEN << >>
  ELSE LET n == MatchLen(t, i, p)
       IN  IF n > 0
             THEN maskValue(SubSeq(t, i, i + n - 1)) \o ReplacePatternFrom(t, i + n, p)
             ELSE << t[i] >> \o ReplacePatternFrom(t, i + 1, p)

RECURSIVE ReplaceKnown(_, _, _)
ReplaceKnown(t, secrets, k) ==
  IF k > Len(secrets) THEN t
  ELSE ReplaceKnown(
         IF Includes(t, secrets[k].value)
           THEN SplitJoin(t, secrets[k].value, secrets[k].masked)
           ELSE t,
         secrets, k + 1)

RECURSIVE ReplacePatterns(_, _)
ReplacePatterns(t, k) ==
  IF k > Len(SECRET_PATTERNS) THEN t
  ELSE ReplacePatterns(ReplacePatternFrom(t, 1, SECRET_PATTERNS[k]), k + 1)

maskText(secrets, text) ==
  IF text = << >> THEN text
  ELSE ReplacePatterns(ReplaceKnown(text, secrets, 1), 1)

(***************************************************************************)
(* State.                                                                  *)
(***************************************************************************)
VARIABLES
  knownSecrets,       \* SecretMasker.knownSecrets: <<[value, masked], ...>>
  wire,               \* the last transmission to the chat surface: [path, raw, text]
  masked,             \* the texts maskText returned, in call order
  activeControllers,  \* sessionKey -> the turn whose AbortController is registered, 0 for none
  originalMessages,   \* sessionKey -> whether an entry is stored
  currentReactions,   \* sessionKey -> the recorded emoji, "none" for no entry
  reactions,          \* chat surface: sessionKey -> the emojis on the original message
  exec,               \* turn -> the locals of its handleMessage invocation
  sessions,           \* sessionKey -> whether the session has its backend-assigned id
  todos,              \* todoManager: the todos stored for the key's session
  todoMessages,       \* sessionKey -> ts of the task-list message, 0 for no entry
  todoPosts,          \* sessionKey -> the task-list messages posted and forgotten, in order
  velog,              \* velog-trending: the request being served and its answer
  activeThreads,      \* the thread keys (channel-threadTs) the bot takes part in
  botUserId,          \* the cached identity of the bot: "null", "" or "B"
  inbound,            \* the user message whose events are being delivered
  handlers,           \* event name -> where the handler of that event stands
  startedBy,          \* the handlers whose handleMessage began a turn for inbound
  delivered,          \* the number of messages delivered so far
  cancelLog           \* the calls of cancelAllRequests, and what the last one left

vars ==
  << knownSecrets, wire, masked, activeControllers, originalMessages,
     currentReactions, reactions, exec, sessions, todos, todoMessages, todoPosts,
     velog, activeThreads, botUserId, inbound, handlers, startedBy, delivered,
     cancelLog >>

routeVars ==
  << activeThreads, botUserId, inbound, handlers, startedBy, delivered, cancelLog >>

maskVars == << knownSecrets, wire, masked >>

sessionVars == << sessions, todos, todoMessages, todoPosts >>

turnVars ==
  << activeControllers, originalMessages, currentReactions, reactions, exec, sessionVars >>

(***************************************************************************)
(* Bounds of the model.                                                    *)
(***************************************************************************)
MaxTurns == 3

MaxEvents == 1

MaxRenderEvents == 3

MaxTokens == 3

MaxSessionTurns == 2

MaxSessionEvents == 1

MaxTodoEvents == 2

MaxCancelTurns == 2

MaxMessages == 2

MaxCancels == 1

MaxLines == 2

MaxPosts == 2

Turns == 1..MaxTurns

\* ClaudeHandler.getSessionKey
getSessionKey(user, channel, thread) == user \o "-" \o channel \o "-" \o thread

\* the senders (a user and the bot itself) and the channels (a public
\* channel and a direct-message channel); every thread is thread "100"
Users == { "U1", "B" }

Channels == { "C1", "D2" }

SessionKeys == { getSessionKey(u, c, "100") : u \in Users, c \in Channels }

\* the keys of the specification of cancelAllRequests
CancelKeys == { "U1-C1-100", "U1-D2-100" }

\* the key of the specifications of one conversation
TurnKeys == { "U1-C1-100" }

(***************************************************************************)
(* Response Renderer: buildResponseText and updateResponse.  A text is     *)
(* [status, parts]; a part is [id, len], id its arrival index in the turn. *)
(***************************************************************************)
SLACK_MAX_LENGTH == 39000

SeparatorLen == 7

\* the length of `${statusEmoji} *${statusText}*` in UTF-16 units
HeaderLen(status) ==
  CASE status = "Thinking"  -> 16
    [] status = "Working"   -> 15
    [] status = "Done"      -> 8
    [] status = "Error"     -> 18
    [] status = "Cancelled" -> 14

RECURSIVE SumLen(_)
SumLen(parts) ==
  IF parts = << >> THEN 0 ELSE Head(parts).len + SumLen(Tail(parts))

buildResponseText(status, parts) == [status |-> status, parts |-> parts]

TextLength(text) ==
  IF text.parts = << >> THEN HeaderLen(text.status)
  ELSE HeaderLen(text.status) + 2 + SumLen(text.parts)
         + SeparatorLen * (Len(text.parts) - 1)

\* one successful call of say / chat.update, as the turn's log records it;
\* pub numbers the invocation of updateResponse that made the call
Post(x, text) ==
  [op |-> "post", ts |-> x.posted + 1, text |-> text, length |-> TextLength(text),
   pub |-> x.publishes]

Update(x, text) ==
  [op |-> "update", ts |-> x.responseMessageTs, text |-> text,
   length |-> TextLength(text), pub |-> x.publishes]

Overflows(x, status) ==
  /\ TextLength(buildResponseText(status, x.contentParts)) > SLACK_MAX_LENGTH
  /\ Len(x.contentParts) > 1

\* what the chat surface can answer to the calls updateResponse makes;
\* faults: whether the environment of the specification lets calls fail
ResponseOutcomes(x, status, faults) ==
  IF x.responseMessageTs = 0 \/ ~faults THEN { "ok" }
  ELSE IF Overflows(x, status) THEN { "ok", "update_fails", "say_fails" }
  ELSE { "ok", "update_fails" }

Answers(faults) == IF faults THEN BOOLEAN ELSE { TRUE }

\* a renderer that posts a new message for every publish instead of updating
\* the response message in place
updateResponse_PostsAnew(x0, status, o) ==
  LET x == [x0 EXCEPT !.publishes = @ + 1]
  IN  IF x0.responseMessageTs = 0 THEN [x |-> x0, threw |-> FALSE]
      ELSE [x |-> [x EXCEPT
                     !.sent = Append(@, Post(x, buildResponseText(status, x.contentParts))),
                     !.posted = @ + 1,
                     !.responseMessageTs = x.posted + 1],
            threw |-> FALSE]

\* updateResponse under outcome o: the turn's locals after it, and whether it threw
updateResponse(x0, status, o) ==
  LET x == [x0 EXCEPT
              !.publishes = @ + 1,
              !.exceeded = @ \/ TextLength(buildResponseText(status, x0.contentParts))
                                  > SLACK_MAX_LENGTH]
  IN
  IF x0.responseMessageTs = 0 THEN [x |-> x0, threw |-> FALSE]
  ELSE IF Overflows(x, status)
    THEN LET latestPart == x.contentParts[Len(x.contentParts)]
             x1 == [x EXCEPT !.contentParts = SubSeq(@, 1, Len(@) - 1)]
             x2 == [x1 EXCEPT
                      !.sent = Append(@, Update(x1, buildResponseText(status, x1.contentParts))),
                      !.contentParts = << latestPart >>]
             x3 == [x2 EXCEPT
                      !.sent = Append(@, Post(x2, buildResponseText(status, x2.contentParts))),
                      !.posted = @ + 1,
                      !.responseMessageTs = x2.posted + 1]
         IN  CASE o = "update_fails" ->
                    [x |-> [x1 EXCEPT !.transportFailed = TRUE], threw |-> TRUE]
               [] o = "say_fails" ->
                    [x |-> [x2 EXCEPT !.transportFailed = TRUE], threw |-> TRUE]
               [] OTHER -> [x |-> x3, threw |-> FALSE]
    ELSE IF o = "ok"
      THEN [x |-> [x EXCEPT
                     !.sent = Append(@, Update(x, buildResponseText(status, x.contentParts)))],
            threw |-> FALSE]
      ELSE [x |-> [x EXCEPT !.transportFailed = TRUE], threw |-> TRUE]

\* contentParts.push(part): the part gets the next arrival index of the turn
Push(x, len, kind) ==
  LET part == [id |-> Len(x.arrived) + 1, len |-> len, kind |-> kind]
  IN  [x EXCEPT !.contentParts = Append(@, part), !.arrived = Append(@, part)]

(***************************************************************************)
(* Backend events (SDKMessage) and their rendering.                        *)
(* A text block is [text: an atom naming the string, len, md: the number   *)
(* of markdown characters formatMessage drops]; a tool_use block carries   *)
(* the length of its rendering.                                            *)
(***************************************************************************)
TextBlock(a, n, md) == [type |-> "text", text |-> a, len |-> n, md |-> md]

ToolUse(name, n) == [type |-> "tool_use", name |-> name, len |-> n, input |-> "ok"]

\* a tool_use block whose input lacks fields: "no_strings" (old_string and
\* new_string), "no_edits" (the edits list), "absent" (no input at all)
MalformedToolUse(name, n, input) ==
  [type |-> "tool_use", name |-> name, len |-> n, input |-> input]

Assistant(content) == [type |-> "assistant", content |-> content]

Result(subtype, a, n) ==
  [type |-> "result", subtype |-> subtype, result |-> a, len |-> n, md |-> 0]

NoEvent == [type |-> "none"]

hasToolUse(message) ==
  \E i \in 1..Len(message.content) : message.content[i].type = "tool_use"

hasTodoTool(message) ==
  \E i \in 1..Len(message.content) :
     message.content[i].type = "tool_use" /\ message.content[i].name = "TodoWrite"

IsTextBlock(b) == b.type = "text"

\* extractTextContent: the text blocks joined with ''
extractTextContent(message) ==
  LET blocks == SelectSeq(message.content, IsTextBlock)
  IN  [text |-> [i \in 1..Len(blocks) |-> blocks[i].text],
       len  |-> SumLen(blocks),
       md   |-> SumLen([i \in 1..Len(blocks) |-> [len |-> blocks[i].md]])]

\* formatMessage rewrites markdown; only the length of its result is kept
formatMessage(content) == content.len - content.md

\* formatToolUse: the blocks joined with '\n\n'; the TodoWrite case returns
\* handleTodoWrite(input), the empty string, from the whole function
formatToolUse(content) ==
  IF \E i \in 1..Len(content) :
        content[i].type = "tool_use" /\ content[i].name = "TodoWrite"
    THEN 0
    ELSE SumLen(content) + 2 * (Len(content) - 1)

\* a TodoWrite block with its input.todos
TodoWrite(td) ==
  [type |-> "tool_use", name |-> "TodoWrite", len |-> 0, input |-> "ok", todos |-> td]

Todo(content, status) == [content |-> content, status |-> status]

\* todoManager.hasSignificantChange: the lists differ in length or in the
\* status of an item
hasSignificantChange(old, new) ==
  \/ Len(old) # Len(new)
  \/ \E i \in 1..Len(new) : old[i].status # new[i].status

\* todoManager.getStatusChange: whether there is a note of items whose
\* status changed
getStatusChange(old, new) ==
  \E i \in 1..Len(new) : i <= Len(old) /\ old[i].status # new[i].status

\* whether formatting block b throws a TypeError: input.file_path or
\* input.command of an absent input (lines 395, 411, 418, 422), or the loop
\* over input.edits that is no list (line 400)
FormatThrows(b) ==
  /\ b.type = "tool_use"
  /\ \/ b.input = "absent" /\ b.name \in { "Edit", "MultiEdit", "Write", "Read", "Bash" }
     \/ b.input = "no_edits" /\ b.name = "MultiEdit"

\* whether formatToolUse(content) throws: a block that throws stands before
\* any TodoWrite block, at which the loop returns (line 384)
formatToolUseThrows(content) ==
  \E i \in 1..Len(content) :
     /\ FormatThrows(content[i])
     /\ \A j \in 1..(i - 1) :
          ~(content[j].type = "tool_use" /\ content[j].name = "TodoWrite")

\* `Error: ${error.message || 'Something went wrong'}` after the cross mark
ErrorPartLen == 29

(***************************************************************************)
(* handleMessage, one invocation per turn.                                 *)
(***************************************************************************)
NewExec ==
  [pc |-> "idle", key |-> "", aborted |-> FALSE, hasFiles |-> FALSE,
   contentParts |-> << >>, currentMessages |-> << >>, responseMessageTs |-> 0,
   rxOld |-> "none", rxNew |-> "none", rxRet |-> "none",
   event |-> NoEvent, caught |-> "none", escaped |-> FALSE,
   \* the backend stream of the turn
   pulled |-> 0, resultSeen |-> FALSE,
   \* the chat surface, as far as this turn wrote it
   posted |-> 0, sent |-> << >>,
   \* history
   arrived |-> << >>, assistantEvents |-> 0, transportFailed |-> FALSE,
   publishes |-> 0, exceeded |-> FALSE, markers |-> << >>, broke |-> FALSE,
   renderedEvents |-> 0, cleanedUp |-> FALSE, shown |-> << >>,
   \* handleTodoUpdate: oldTodos, newTodos and the task-list message it updates
   oldTodos |-> << >>, newTodos |-> << >>, todoFallback |-> FALSE,
   \* the lists updateTaskProgressReaction was called with, and its marker
   progress |-> << >>,
   \* the cleanup timer the finally block arms
   timer |-> "none",
   superseded |-> FALSE, supersededStreaming |-> FALSE,
   pulledStale |-> FALSE, staleEffects |-> 0]

\* the turn is inside the for-await loop over streamQuery
Streaming(x) ==
  \/ x.pc \in { "pull", "tool_after_rx", "todo_update", "todo_post", "todo_notice",
                "tool_render" }
  \/ x.pc \in { "rx_remove", "rx_add" } /\ x.rxRet \in { "tool_after_rx", "tool_render" }

Running(x) == x.pc \notin { "idle", "ended" }

\* updateMessageReaction up to its first await: the locals of the turn after it
updateMessageReaction(x, emoji, ret) ==
  LET currentEmoji == currentReactions[x.key]
      x1 == [x EXCEPT !.markers = Append(@, emoji)]
  IN  IF ~originalMessages[x.key] \/ currentEmoji = emoji
        THEN [x1 EXCEPT !.pc = ret]
        ELSE [x1 EXCEPT !.pc = IF currentEmoji # "none" THEN "rx_remove" ELSE "rx_add",
                        !.rxOld = currentEmoji, !.rxNew = emoji, !.rxRet = ret]

\* an exception reaches the catch block of handleMessage
Throw(x, kind) == [x EXCEPT !.pc = "catch", !.caught = kind]

\* handleMessage up to its first await for a message that is no command
\* (lines 160-186): register the turn, aborting the registered controller
handleMessage(t, k, files) ==
  /\ exec[t].pc = "idle"
  /\ t > 1 => exec[t - 1].pc # "idle"
  /\ originalMessages' = [originalMessages EXCEPT ![k] = TRUE]
  /\ LET existingController == activeControllers[k]
     IN  exec' =
           [u \in Turns |->
              IF u = t
                THEN [exec[u] EXCEPT !.pc = "thinking", !.key = k, !.hasFiles = files]
                ELSE [exec[u] EXCEPT
                        !.aborted = @ \/ (u = existingController),
                        !.superseded = @ \/ (exec[u].key = k /\ Running(exec[u])),
                        !.supersededStreaming =
                           @ \/ (exec[u].key = k /\ Streaming(exec[u]))]]
  /\ activeControllers' = [activeControllers EXCEPT ![k] = t]
  /\ UNCHANGED << currentReactions, reactions, maskVars, velog, sessionVars >>

\* a message for key k reaches handleMessage
Start(t, k, files) == handleMessage(t, k, files) /\ UNCHANGED routeVars

\* lines 226-244: format the prompt, post the status message, begin the marker
PostThinking(t, faults) ==
  /\ exec[t].pc = "thinking"
  /\ \E o \in { "ok" } \cup (IF faults THEN { "say_fails" } ELSE { })
                     \cup (IF exec[t].hasFiles THEN { "prompt_fails" } ELSE { }) :
       LET x  == exec[t]
           x1 == [x EXCEPT
                    !.sent = Append(@, Post(x, buildResponseText("Thinking", << >>))),
                    !.posted = @ + 1,
                    !.responseMessageTs = x.posted + 1]
       IN  exec' = [exec EXCEPT ![t] =
             CASE o = "ok" -> updateMessageReaction(x1, "thinking_face", "pull")
               [] o = "say_fails" -> Throw([x EXCEPT !.transportFailed = TRUE], "transport")
               [] OTHER -> Throw(x, "files")]
  /\ UNCHANGED << activeControllers, originalMessages, currentReactions, reactions,
                  maskVars, velog, routeVars, sessionVars >>

\* reactions.remove answered (lines 520-535): a failure is logged and ignored
ReactionRemoved(t, faults) ==
  /\ exec[t].pc = "rx_remove"
  /\ \E ok \in Answers(faults) :
       reactions' = [reactions EXCEPT ![exec[t].key] =
                       IF ok THEN @ \ { exec[t].rxOld } ELSE @]
  /\ exec' = [exec EXCEPT ![t].pc = "rx_add"]
  /\ UNCHANGED << activeControllers, originalMessages, currentReactions, maskVars, velog, routeVars, sessionVars >>

\* reactions.add answered (lines 537-554): recorded on success only
ReactionAdded(t, faults) ==
  /\ exec[t].pc = "rx_add"
  /\ \E ok \in Answers(faults) :
       /\ reactions' = [reactions EXCEPT ![exec[t].key] =
                          IF ok THEN @ \cup { exec[t].rxNew } ELSE @]
       /\ currentReactions' = [currentReactions EXCEPT ![exec[t].key] =
                                 IF ok THEN exec[t].rxNew ELSE @]
  /\ exec' = [exec EXCEPT ![t].pc = exec[t].rxRet]
  /\ UNCHANGED << activeControllers, originalMessages, maskVars, velog, routeVars, sessionVars >>

\* an effect of the event being processed: counted when the event was pulled
\* after a later turn of the key had started
Effect(x) == [x EXCEPT !.staleEffects = @ + (IF x.pulledStale THEN 1 ELSE 0)]

\* await updateResponse('Working...') after contentParts.push (lines 277-278, 285-286)
Publish(x, o) ==
  LET r == updateResponse(x, "Working", o)
  IN  IF r.threw THEN Throw(r.x, "transport") ELSE [r.x EXCEPT !.pc = "pull"]

\* lines 307-308, reached when the loop is left by exhaustion or by break
Done(x, o) ==
  LET r == updateResponse(x, "Done", o)
  IN  IF r.threw THEN Throw(r.x, "transport")
      ELSE updateMessageReaction(r.x, "white_check_mark", "done_cleanup")

InSeq(e, s) == \E i \in 1..Len(s) : s[i] = e

\* the body of the for-await loop for message e, up to its first await
\* (lines 253-304): the locals the turn can have after it
Dispatch(x, e, faults) ==
  IF x.aborted
    THEN { Done([x EXCEPT !.broke = TRUE], o) : o \in ResponseOutcomes(x, "Done", faults) }
  ELSE IF e.type = "assistant"
    THEN LET x1 == [x EXCEPT !.assistantEvents = @ + 1]
         IN  IF hasToolUse(e)
               THEN { updateMessageReaction([x1 EXCEPT !.event = e], "gear", "tool_after_rx") }
               ELSE LET content == extractTextContent(e)
                        x2 == Push([x1 EXCEPT
                                      !.currentMessages = Append(@, content.text),
                                      !.shown = Append(@, [kind |-> "prose",
                                                           text |-> content.text])],
                                   formatMessage(content), "prose")
                    IN  IF content.len > 0
                          THEN { Publish(Effect(x2), o) : o \in ResponseOutcomes(x2, "Working", faults) }
                          ELSE { x1 }
  ELSE LET x1 == [x EXCEPT !.resultSeen = TRUE]
       IN  IF e.subtype = "success" /\ e.len > 0 /\ ~InSeq(e.result, x.currentMessages)
             THEN { Effect(Push([x1 EXCEPT !.shown = Append(@, [kind |-> "result",
                                                                 text |-> e.result])],
                                formatMessage(e), "result")) }
             ELSE { x1 }

\* whether an assistant message renders to a non-empty content part
Renders(e) ==
  /\ e.type = "assistant"
  /\ IF hasToolUse(e) THEN formatToolUse(e.content) > 0
                      ELSE extractTextContent(e).len > 0

\* streamQuery yields message e (line 252); a result message is the last
\* message of a stream.  By then the backend may have assigned the session
\* its id (ids: the answers the specification allows)
Yield(t, e, max, faults, ids) ==
  /\ exec[t].pc = "pull"
  /\ \E got \in ids : sessions' = [sessions EXCEPT ![exec[t].key] = @ \/ got]
  /\ exec[t].pulled < max
  /\ ~exec[t].resultSeen
  /\ \E nx \in Dispatch([exec[t] EXCEPT
                           !.pulled = @ + 1,
                           !.pulledStale = exec[t].supersededStreaming,
                           !.renderedEvents =
                              @ + (IF ~exec[t].aborted /\ Renders(e) THEN 1 ELSE 0)],
                        e, faults) :
       exec' = [exec EXCEPT ![t] = nx]
  /\ UNCHANGED << activeControllers, originalMessages, currentReactions, reactions,
                  maskVars, velog, routeVars,
                  todos, todoMessages, todoPosts >>

\* lines 275-279: render the tool use and publish; the locals the turn can
\* have after it
RenderTool(x, faults) ==
  LET toolContent == formatToolUse(x.event.content)
      blocks == SelectSeq(x.event.content, IsTextBlock)
      x0 == [x EXCEPT !.event = NoEvent, !.oldTodos = << >>, !.newTodos = << >>,
                      !.todoFallback = FALSE]
      x1 == Push([x0 EXCEPT !.shown = @ \o [i \in 1..Len(blocks) |->
                                              [kind |-> "tool", text |-> << blocks[i].text >>]]],
                 toolContent, "tool")
  IN  IF formatToolUseThrows(x.event.content) THEN { Throw(x0, "format") }
      ELSE IF toolContent > 0
        THEN { Publish(Effect(x1), o) : o \in ResponseOutcomes(x1, "Working", faults) }
        ELSE { [x0 EXCEPT !.pc = "pull"] }

\* updateTaskProgressReaction without its in-progress branch
ProgressReaction_NoProgressMarker(x, faults) ==
  LET td == x.newTodos
      completed  == Cardinality({ i \in 1..Len(td) : td[i].status = "completed" })
      emoji == IF completed = Len(td) THEN "white_check_mark" ELSE "clipboard"
      x0 == [x EXCEPT !.progress =
               Append(@, [todos |-> td,
                          marker |-> IF td = << >> THEN "unchanged" ELSE emoji])]
      x1 == updateMessageReaction(x0, emoji, "tool_render")
  IN  IF td = << >> THEN RenderTool(x0, faults)
      ELSE IF x1.pc = "tool_render" THEN RenderTool(x1, faults) ELSE { x1 }

\* updateTaskProgressReaction (lines 557-576) up to its first await, then
\* back to line 275; an empty list returns at once (line 558)
ProgressReaction(x, faults) ==
  LET td == x.newTodos
      completed  == Cardinality({ i \in 1..Len(td) : td[i].status = "completed" })
      inProgress == Cardinality({ i \in 1..Len(td) : td[i].status = "in_progress" })
      emoji == IF completed = Len(td) THEN "white_check_mark"
               ELSE IF inProgress > 0 THEN "arrows_counterclockwise"
               ELSE "clipboard"
      x0 == [x EXCEPT !.progress =
               Append(@, [todos |-> td,
                          marker |-> IF td = << >> THEN "unchanged" ELSE emoji])]
      x1 == updateMessageReaction(x0, emoji, "tool_render")
  IN  IF td = << >> THEN RenderTool(x0, faults)
      ELSE IF x1.pc = "tool_render" THEN RenderTool(x1, faults) ELSE { x1 }

\* lines 477-485: the status-change notice, when there is one, then the marker
AfterTodoMessage(x, faults) ==
  IF getStatusChange(x.oldTodos, x.newTodos)
    THEN { [x EXCEPT !.pc = "todo_notice"] }
    ELSE ProgressReaction(x, faults)

\* the first TodoWrite block of the message (line 267)
todoTool(message) ==
  LET i == CHOOSE i \in 1..Len(message.content) :
             /\ message.content[i].type = "tool_use" /\ message.content[i].name = "TodoWrite"
             /\ \A j \in 1..(i - 1) :
                  ~(message.content[j].type = "tool_use" /\ message.content[j].name = "TodoWrite")
  IN  message.content[i]

\* lines 267-279, after the gear marker: handleTodoUpdate up to its first
\* await (lines 447-461), or the rendering when it returns at once
ToolAfterReaction(t, faults) ==
  /\ exec[t].pc = "tool_after_rx"
  /\ LET x == exec[t]
         k == x.key
         significant ==
           /\ hasTodoTool(x.event)
           /\ sessions[k]
           /\ "todos" \in DOMAIN todoTool(x.event)
           /\ hasSignificantChange(todos[k], todoTool(x.event).todos)
     IN  IF significant
           THEN /\ todos' = [todos EXCEPT ![k] = todoTool(x.event).todos]
                /\ exec' = [exec EXCEPT ![t] =
                     [x EXCEPT !.oldTodos = todos[k],
                               !.newTodos = todoTool(x.event).todos,
                               !.pc = IF todoMessages[k] # 0 THEN "todo_update"
                                                             ELSE "todo_post"]]
           ELSE /\ \E nx \in RenderTool(x, faults) : exec' = [exec EXCEPT ![t] = nx]
                /\ UNCHANGED todos
  /\ UNCHANGED << activeControllers, originalMessages, currentReactions, reactions,
                  maskVars, velog, routeVars,
                  sessions, todoMessages, todoPosts >>

\* chat.update of the task-list message answered (lines 462-472): a failure
\* falls back to createNewTodoMessage
TodoUpdated(t, faults, todoFaults) ==
  /\ exec[t].pc = "todo_update"
  /\ \E ok \in Answers(todoFaults) :
       IF ok
         THEN \E nx \in AfterTodoMessage(exec[t], faults) : exec' = [exec EXCEPT ![t] = nx]
         ELSE exec' = [exec EXCEPT ![t].pc = "todo_post", ![t].todoFallback = TRUE]
  /\ UNCHANGED << activeControllers, originalMessages, currentReactions, reactions,
                  maskVars, velog, routeVars,
                  sessionVars >>

\* say of createNewTodoMessage answered (lines 496-504); its failure is not
\* caught before the catch block of handleMessage
TodoPosted(t, faults) ==
  /\ exec[t].pc = "todo_post"
  /\ LET x == exec[t]
         k == x.key
         ts == Cardinality({ i \in 1..Len(todoPosts[k]) : todoPosts[k][i].kind = "post" }) + 1
     IN  \E ok \in Answers(faults) :
           IF ok
             THEN /\ todoMessages' = [todoMessages EXCEPT ![k] = ts]
                  /\ todoPosts' = [todoPosts EXCEPT ![k] =
                       Append(@, [kind |-> "post", ts |-> ts, fallback |-> x.todoFallback])]
                  /\ \E nx \in AfterTodoMessage(x, faults) : exec' = [exec EXCEPT ![t] = nx]
             ELSE /\ exec' = [exec EXCEPT ![t] =
                                Throw([x EXCEPT !.transportFailed = TRUE], "transport")]
                  /\ UNCHANGED << todoMessages, todoPosts >>
  /\ UNCHANGED << activeControllers, originalMessages, currentReactions, reactions,
                  maskVars, velog, routeVars,
                  sessions, todos >>

\* say of the status-change notice answered (lines 478-483)
TodoNoticed(t, faults) ==
  /\ exec[t].pc = "todo_notice"
  /\ \E ok \in Answers(faults) :
       IF ok
         THEN \E nx \in ProgressReaction(exec[t], faults) : exec' = [exec EXCEPT ![t] = nx]
         ELSE exec' = [exec EXCEPT ![t] =
                         Throw([exec[t] EXCEPT !.transportFailed = TRUE], "transport")]
  /\ UNCHANGED << activeControllers, originalMessages, currentReactions, reactions,
                  maskVars, velog, routeVars,
                  sessionVars >>

\* back in handleMessage after handleTodoUpdate set the progress marker
\* (lines 275-279)
ToolRendered(t, faults) ==
  /\ exec[t].pc = "tool_render"
  /\ \E nx \in RenderTool(exec[t], faults) : exec' = [exec EXCEPT ![t] = nx]
  /\ UNCHANGED << activeControllers, originalMessages, currentReactions, reactions,
                  maskVars, velog, routeVars,
                  sessionVars >>

\* the timer armed at line 339 fires (lines 340-343)
TimerFires(t) ==
  /\ exec[t].timer = "armed"
  /\ LET k == exec[t].key
         stale == \E u \in Turns :
                    /\ u > t /\ exec[u].key = k
                    /\ Running(exec[u]) \/ exec[u].timer = "armed"
     IN  /\ exec' = [exec EXCEPT ![t].timer = IF stale THEN "stale" ELSE "fired"]
         /\ todos' = [todos EXCEPT ![k] = << >>]
         /\ todoMessages' = [todoMessages EXCEPT ![k] = 0]
         /\ todoPosts' = [todoPosts EXCEPT ![k] =
              IF todoMessages[k] # 0
                THEN Append(@, [kind |-> "forgotten", ts |-> todoMessages[k], stale |-> stale])
                ELSE @]
         /\ originalMessages' = [originalMessages EXCEPT ![k] = FALSE]
         /\ currentReactions' = [currentReactions EXCEPT ![k] = "none"]
  /\ UNCHANGED << activeControllers, reactions, maskVars, velog, routeVars, sessions >>

\* streamQuery is exhausted
StreamEnds(t, faults) ==
  /\ exec[t].pc = "pull"
  /\ \E o \in ResponseOutcomes(exec[t], "Done", faults) :
       exec' = [exec EXCEPT ![t] = Done(exec[t], o)]
  /\ UNCHANGED << activeControllers, originalMessages, currentReactions, reactions,
                  maskVars, velog, routeVars, sessionVars >>

\* streamQuery throws: a backend error, or an AbortError once the signal is set
StreamThrows(t) ==
  /\ exec[t].pc = "pull"
  /\ \E kind \in { "backend" } \cup (IF exec[t].aborted THEN { "abort" } ELSE { }) :
       exec' = [exec EXCEPT ![t] = Throw(exec[t], kind)]
  /\ UNCHANGED << activeControllers, originalMessages, currentReactions, reactions,
                  maskVars, velog, routeVars, sessionVars >>

\* the finally block (lines 335-346)
finally(t, x) ==
  /\ exec' = [exec EXCEPT ![t] =
                [x EXCEPT !.pc = "ended",
                          !.timer = IF sessions[x.key] THEN "armed" ELSE "none"]]
  /\ activeControllers' = [activeControllers EXCEPT ![x.key] = 0]

\* the catch block up to the marker (lines 318-330); an exception thrown
\* inside it leaves handleMessage through finally
Catch(t, faults) ==
  /\ exec[t].pc = "catch"
  /\ LET x      == exec[t]
         abort  == x.caught = "abort"
         x1     == IF abort THEN x ELSE Push(x, ErrorPartLen, "error")
         status == IF abort THEN "Cancelled" ELSE "Error"
         emoji  == IF abort THEN "stop_button" ELSE "x"
     IN  \E o \in ResponseOutcomes(x1, status, faults) :
           LET r == updateResponse(x1, status, o)
           IN  IF r.threw
                 THEN finally(t, [r.x EXCEPT !.escaped = TRUE])
                 ELSE /\ exec' = [exec EXCEPT ![t] =
                                    updateMessageReaction(r.x, emoji, "catch_cleanup")]
                      /\ UNCHANGED activeControllers
  /\ UNCHANGED << originalMessages, currentReactions, reactions, maskVars, velog, routeVars, sessionVars >>

\* lines 310-317 and finally: cleanupTempFiles after Done may throw into catch
DoneCleanup(t) ==
  /\ exec[t].pc = "done_cleanup"
  /\ \E ok \in { TRUE } \cup (IF exec[t].hasFiles THEN { FALSE } ELSE { }) :
       IF ok THEN finally(t, [exec[t] EXCEPT !.cleanedUp = @ \/ exec[t].hasFiles])
       ELSE /\ exec' = [exec EXCEPT ![t] = Throw(exec[t], "files")]
            /\ UNCHANGED activeControllers
  /\ UNCHANGED << originalMessages, currentReactions, reactions, maskVars, velog, routeVars, sessionVars >>

\* lines 332-334 and finally
CatchCleanup(t) ==
  /\ exec[t].pc = "catch_cleanup"
  /\ \E ok \in { TRUE } \cup (IF exec[t].hasFiles THEN { FALSE } ELSE { }) :
       finally(t, [exec[t] EXCEPT !.escaped = ~ok,
                                  !.cleanedUp = @ \/ (ok /\ exec[t].hasFiles)])
  /\ UNCHANGED << originalMessages, currentReactions, reactions, maskVars, velog, routeVars, sessionVars >>

(***************************************************************************)
(* cancelAllRequests and the event handlers of setupEventHandlers.  A      *)
(* message event is [user ("none": no user field), channel, text, subtype, *)
(* thread_ts]; its files are those of a file_share.  The chat transport    *)
(* delivers every message as a message event and, when it mentions the bot *)
(* in a channel, as an app_mention event as well.                          *)
(***************************************************************************)
\* lines 589-597
cancelAllRequests ==
  /\ cancelLog.calls < MaxCancels
  /\ exec' = [t \in Turns |->
                IF \E k \in SessionKeys : activeControllers[k] = t
                  THEN [exec[t] EXCEPT !.aborted = TRUE]
                  ELSE exec[t]]
  /\ activeControllers' = [k \in SessionKeys |-> 0]
  /\ activeThreads' = { }
  /\ cancelLog' = [calls |-> cancelLog.calls + 1,
                   running |-> { t \in Turns : Running(exec[t]) },
                   registered |-> { k \in SessionKeys : activeControllers'[k] # 0 }]
  /\ UNCHANGED << originalMessages, currentReactions, reactions, maskVars, velog,
                  sessionVars, botUserId, inbound, handlers, startedBy, delivered >>

\* the texts of the messages; text.includes(`<@${botId}>`) for the bot's id
Mentions(text) == text \in { "<@B>", "<@B> hi" }

\* text.replace(/<@[^>]+>/g, '').trim() (line 670)
StripMentions(text) ==
  CASE text = "<@B>" -> ""
    [] text = "<@B> hi" -> "hi"
    [] OTHER -> text

\* channel.startsWith('D')
isDM(channel) == channel = "D2"

HasFiles(m) == m.subtype = "file_share"

\* `${channel}-${thread_ts || ts}` (lines 671, 715); a message outside a
\* thread opens thread "100"
threadKey(m) == m.channel \o "-" \o "100"

\* the message events of the model
Messages ==
  { m \in [user : { "U1", "B", "none" }, channel : Channels,
           text : { "", "hi", "<@B>", "<@B> hi" },
           subtype : { "none", "file_share", "channel_join", "message_changed" },
           thread_ts : { "none", "100" }] :
      /\ m.subtype = "message_changed" <=> m.user = "none"
      /\ m.user = "none" => m.text = "" /\ m.thread_ts = "none"
      /\ m.user = "B" => m.text = "hi" /\ m.subtype = "none"
      /\ m.subtype = "channel_join" =>
            m.text = "hi" /\ m.thread_ts = "none" /\ m.channel = "C1"
      /\ m.text = "" => m.subtype # "none" }

\* whether the transport delivers message m as app_mention event too
IsAppMention(m) ==
  /\ m.user = "U1" /\ ~isDM(m.channel) /\ Mentions(m.text)
  /\ m.subtype \in { "none", "file_share" }

\* the transport delivers the events of message m, once the handlers of the
\* message before have called handleMessage or returned; there is a turn
\* left for each of its events
Deliver(m) ==
  /\ delivered < MaxMessages
  /\ \A h \in DOMAIN handlers : handlers[h] \in { "none", "done" }
  /\ exec[MaxTurns - 1].pc = "idle"
  /\ inbound' = m
  /\ handlers' = [app_mention |-> IF IsAppMention(m) THEN "pending" ELSE "none",
                  message |-> "pending"]
  /\ startedBy' = { }
  /\ delivered' = delivered + 1
  /\ UNCHANGED << turnVars, maskVars, velog, activeThreads, botUserId, cancelLog >>

\* handler h calls handleMessage with the event and this text: a message
\* without text and files is dropped (line 72), any other begins a turn
CallHandleMessage(h, m, text) ==
  IF text = "" /\ ~HasFiles(m)
    THEN UNCHANGED << turnVars, startedBy >>
    ELSE /\ \E t \in Turns :
              handleMessage(t, getSessionKey(m.user, m.channel, "100"), HasFiles(m))
         /\ startedBy' = startedBy \cup { h }

\* the app_mention handler (lines 668-678)
AppMention ==
  /\ handlers.app_mention = "pending"
  /\ activeThreads' = activeThreads \cup { threadKey(inbound) }
  /\ CallHandleMessage("app_mention", inbound, StripMentions(inbound.text))
  /\ handlers' = [handlers EXCEPT !.app_mention = "done"]
  /\ UNCHANGED << maskVars, velog, botUserId, inbound, delivered, cancelLog >>

\* the message handler from its call of getBotUserId on (lines 685-719)
Route(m, botId) ==
  LET ignored == UNCHANGED << turnVars, startedBy >>
      handled == CallHandleMessage("message", m, m.text)
  IN  IF m.user = botId THEN ignored
      ELSE IF ~isDM(m.channel) /\ botId # "" /\ Mentions(m.text) THEN ignored
      ELSE IF m.subtype = "file_share" THEN handled
      ELSE IF m.subtype # "none" THEN ignored
      ELSE IF isDM(m.channel) THEN handled
      ELSE IF m.thread_ts = "none" THEN ignored
      ELSE IF threadKey(m) \notin activeThreads THEN ignored
      ELSE handled

\* the message handler up to the answer of getBotUserId (lines 681-684,
\* 607-618): an identity that is not cached is asked of auth.test
MessageEvent ==
  /\ handlers.message = "pending"
  /\ IF inbound.user = "none"
       THEN /\ handlers' = [handlers EXCEPT !.message = "done"]
            /\ UNCHANGED << turnVars, startedBy >>
       ELSE IF botUserId \in { "null", "" }
         THEN /\ handlers' = [handlers EXCEPT !.message = "auth"]
              /\ UNCHANGED << turnVars, startedBy >>
         ELSE /\ handlers' = [handlers EXCEPT !.message = "done"]
              /\ Route(inbound, botUserId)
  /\ UNCHANGED << maskVars, velog, activeThreads, botUserId, inbound, delivered,
                  cancelLog >>

\* auth.test answered (lines 610-615): a failure stores the empty string
AuthAnswered ==
  /\ handlers.message = "auth"
  /\ \E ok \in BOOLEAN :
       /\ botUserId' = IF ok THEN "B" ELSE ""
       /\ Route(inbound, IF ok THEN "B" ELSE "")
  /\ handlers' = [handlers EXCEPT !.message = "done"]
  /\ UNCHANGED << maskVars, velog, activeThreads, inbound, delivered, cancelLog >>

(***************************************************************************)
(* velog-trending (server.js).  The upstream answer is a fetch failure, a  *)
(* status that is not ok, or a body of lines; a line is told by what the   *)
(* parser tests on it, a post by whether it has user and profile.          *)
(***************************************************************************)
VALID_TIMEFRAMES == { "day", "week", "month" }

Timeframes == VALID_TIMEFRAMES \cup { "year", "Day", "" }

RECURSIVE SeqsUpTo(_, _)
SeqsUpTo(S, n) ==
  IF n = 0 THEN { << >> }
  ELSE LET shorter == SeqsUpTo(S, n - 1)
       IN  shorter \cup { Append(q, e) : q \in { r \in shorter : Len(r) = n - 1 }, e \in S }

PostKinds == { "full", "noprofile", "nouser" }

Lines ==
  { [kind |-> "nocolon"], [kind |-> "nodata"], [kind |-> "badjson"],
    [kind |-> "notarray"] }
    \cup { [kind |-> "data", data |-> d] : d \in SeqsUpTo(PostKinds, MaxPosts) }

UpstreamAnswers ==
  { [kind |-> "rejected"], [kind |-> "status", ok |-> FALSE] }
    \cup { [kind |-> "status", ok |-> TRUE, lines |-> b] : b \in SeqsUpTo(Lines, MaxLines) }

Thrown(message) == [threw |-> TRUE, message |-> message]

Returned(value) == [threw |-> FALSE, value |-> value]

\* the loop over text.split("\n") from line i on
RECURSIVE ScanLines(_, _)
ScanLines(lines, i) ==
  IF i > Len(lines) THEN Thrown("Failed to parse trending data from velog")
  ELSE IF lines[i].kind = "data" THEN Returned(lines[i].data)
  ELSE ScanLines(lines, i + 1)

\* a fetch that answers with a status that is not ok is treated as an empty list
fetchTrendingPosts_IgnoresStatus(answer) ==
  IF answer.kind = "rejected" THEN Thrown("fetch failed")
  ELSE IF ~answer.ok THEN Returned(<< >>)
  ELSE ScanLines(answer.lines, 1)

fetchTrendingPosts(answer) ==
  IF answer.kind = "rejected" THEN Thrown("fetch failed")
  ELSE IF ~answer.ok THEN Thrown("velog responded with status")
  ELSE ScanLines(answer.lines, 1)

\* post.user.username throws on a post without user
toResponseItem(post) ==
  IF post = "nouser" THEN Thrown("TypeError")
  ELSE Returned([author |-> [displayName |-> IF post = "full" THEN "display_name"
                                                               ELSE "username"]])

\* posts.map(toResponseItem)
MapItems(posts) ==
  IF \E i \in 1..Len(posts) : toResponseItem(posts[i]).threw
    THEN Thrown("TypeError")
    ELSE Returned([i \in 1..Len(posts) |-> toResponseItem(posts[i]).value])

NoRequest ==
  [pc |-> "idle", timeframe |-> "", upstreamRequests |-> 0, upstream |-> [kind |-> "none"],
   status |-> 0, body |-> [error |-> ""]]

\* app.get("/:timeframe") up to its await
GetTimeframe(timeframe) ==
  /\ velog.pc = "idle"
  /\ velog' =
       IF timeframe \notin VALID_TIMEFRAMES
         THEN [velog EXCEPT !.pc = "answered", !.timeframe = timeframe, !.status = 400,
                            !.body = [error |-> "Invalid timeframe"]]
         ELSE [velog EXCEPT !.pc = "fetching", !.timeframe = timeframe,
                            !.upstreamRequests = @ + 1]
  /\ UNCHANGED << turnVars, maskVars, routeVars >>

\* the upstream request is answered: the rest of the try block, or the catch
UpstreamAnswered(answer) ==
  /\ velog.pc = "fetching"
  /\ LET posts == fetchTrendingPosts(answer)
         items == IF posts.threw THEN posts ELSE MapItems(posts.value)
     IN  velog' =
           IF items.threw
             THEN [velog EXCEPT !.pc = "answered", !.upstream = answer, !.status = 502,
                                !.body = [error |-> items.message]]
             ELSE [velog EXCEPT !.pc = "answered", !.upstream = answer, !.status = 200,
                                !.body = [timeframe |-> velog.timeframe,
                                          count |-> Len(items.value),
                                          items |-> items.value]]
  /\ UNCHANGED << turnVars, maskVars, routeVars >>

(***************************************************************************)
(* Specifications.                                                         *)
(***************************************************************************)
NoWire == [path |-> "none", raw |-> << >>, text |-> << >>]

\* no message event yet
NoMessage ==
  [user |-> "none", channel |-> "none", text |-> "", subtype |-> "none",
   thread_ts |-> "none"]

InitRoute ==
  /\ activeThreads = { }
  /\ botUserId = "null"
  /\ inbound = NoMessage
  /\ handlers = [app_mention |-> "none", message |-> "none"]
  /\ startedBy = { }
  /\ delivered = 0
  /\ cancelLog = [calls |-> 0, running |-> { }, registered |-> { }]

InitTurns ==
  /\ activeControllers = [k \in SessionKeys |-> 0]
  /\ originalMessages = [k \in SessionKeys |-> FALSE]
  /\ currentReactions = [k \in SessionKeys |-> "none"]
  /\ reactions = [k \in SessionKeys |-> { }]
  /\ exec = [t \in Turns |-> NewExec]
  /\ sessions = [k \in SessionKeys |-> FALSE]
  /\ todos = [k \in SessionKeys |-> << >>]
  /\ todoMessages = [k \in SessionKeys |-> 0]
  /\ todoPosts = [k \in SessionKeys |-> << >>]

\* what the backend yields in the specification of overlapping turns
TurnEvents ==
  { Assistant(<< TextBlock("a", 12, 0) >>) }

Init ==
  /\ InitTurns
  /\ InitRoute
  /\ knownSecrets = << >>
  /\ wire = NoWire
  /\ masked = << >>
  /\ velog = NoRequest

TurnStep(t, events, max, faults, ids) ==
  \/ PostThinking(t, faults)
  \/ ReactionRemoved(t, faults)
  \/ ReactionAdded(t, faults)
  \/ \E e \in events : Yield(t, e, max, faults, ids)
  \/ StreamEnds(t, faults)
  \/ StreamThrows(t)
  \/ Catch(t, faults)
  \/ DoneCleanup(t)
  \/ CatchCleanup(t)

\* overlapping turns of one session key; the chat surface answers every call
Next ==
  \E t \in Turns :
    \/ \E k \in TurnKeys : Start(t, k, FALSE)
    \/ TurnStep(t, TurnEvents, MaxEvents, FALSE, { TRUE })

Spec == Init /\ [][Next]_vars

\* what the backend yields in the specification of one turn's rendering
RenderEvents ==
  { Assistant(<< TextBlock("a", 12, 0) >>),
    Assistant(<< TextBlock("b", 20000, 2) >>),
    Assistant(<< TextBlock("c", 39000, 0) >>),
    Assistant(<< TextBlock("d", 18976, 0) >>),
    Assistant(<< TextBlock("", 0, 0) >>),
    Assistant(<< ToolUse("Edit", 40) >>),
    Assistant(<< ToolUse("TodoWrite", 0) >>),
    Assistant(<< TextBlock("a", 12, 0), ToolUse("Read", 30) >>),
    Assistant(<< TextBlock("a", 12, 0), ToolUse("TodoWrite", 0) >>),
    Assistant(<< ToolUse("TodoWrite", 0), ToolUse("Read", 30) >>),
    Assistant(<< MalformedToolUse("Edit", 30, "no_strings") >>),
    Assistant(<< MalformedToolUse("MultiEdit", 0, "no_edits") >>),
    Result("success", << "a" >>, 12),
    Result("success", << "r" >>, 20000),
    Result("error_during_execution", << >>, 0) }

\* one turn, every backend event, a chat surface whose calls may fail
NextRender ==
  \/ \E k \in TurnKeys, files \in BOOLEAN : Start(1, k, files)
  \/ TurnStep(1, RenderEvents, MaxRenderEvents, TRUE, { TRUE })
  \/ ToolAfterReaction(1, TRUE)

SpecRender == Init /\ [][NextRender]_vars

\* what the backend yields in the specification of a session's task list
SessionEvents ==
  { Assistant(<< TextBlock("a", 12, 0) >>),
    Assistant(<< TodoWrite(<< Todo("t1", "pending") >>) >>),
    Assistant(<< TodoWrite(<< Todo("t1", "in_progress") >>) >>),
    Assistant(<< TodoWrite(<< Todo("t1 ", "in_progress") >>) >>) }

\* two turns of one session key with its task list and cleanup timers; only
\* the update of the task-list message may fail
NextSession ==
  \E t \in 1..MaxSessionTurns :
    \/ \E k \in TurnKeys : Start(t, k, FALSE)
    \/ TurnStep(t, SessionEvents, MaxSessionEvents, FALSE, BOOLEAN)
    \/ ToolAfterReaction(t, FALSE)
    \/ TodoUpdated(t, FALSE, TRUE)
    \/ TodoPosted(t, FALSE)
    \/ TodoNoticed(t, FALSE)
    \/ ToolRendered(t, FALSE)
    \/ TimerFires(t)

SpecSession == Init /\ [][NextSession]_vars

\* what the backend yields in the specification of the aggregate marker
TodoEvents ==
  { Assistant(<< TodoWrite(<< >>) >>),
    Assistant(<< TodoWrite(<< Todo("t1", "pending") >>) >>),
    Assistant(<< TodoWrite(<< Todo("t1", "completed") >>) >>),
    Assistant(<< TodoWrite(<< Todo("t1", "completed"), Todo("t2", "pending") >>) >>),
    Assistant(<< TodoWrite(<< Todo("t1", "in_progress"), Todo("t2", "completed") >>) >>),
    Assistant(<< TodoWrite(<< Todo("t1", "completed"), Todo("t2", "completed") >>) >>) }

\* one turn of a session whose backend rewrites the task list; the chat
\* surface answers every call but the update of the task-list message
NextTodo ==
  \/ \E k \in TurnKeys : Start(1, k, FALSE)
  \/ TurnStep(1, TodoEvents, MaxTodoEvents, FALSE, { TRUE })
  \/ ToolAfterReaction(1, FALSE)
  \/ TodoUpdated(1, FALSE, TRUE)
  \/ TodoPosted(1, FALSE)
  \/ TodoNoticed(1, FALSE)
  \/ ToolRendered(1, FALSE)

SpecTodo == Init /\ [][NextTodo]_vars

\* overlapping turns of two session keys, and cancelAllRequests at any time
NextCancel ==
  \/ \E t \in 1..MaxCancelTurns :
       \/ \E k \in CancelKeys : Start(t, k, FALSE)
       \/ TurnStep(t, TurnEvents, MaxEvents, FALSE, { TRUE })
  \/ cancelAllRequests

SpecCancel == Init /\ [][NextCancel]_vars

\* the events of up to MaxMessages messages, each delivered to the handlers
\* registered for it, up to the turns the handlers begin (a turn that was
\* begun waits for the answer to its status message)
NextRoute ==
  \/ \E m \in Messages : Deliver(m)
  \/ AppMention
  \/ MessageEvent
  \/ AuthAnswered
  \/ cancelAllRequests

SpecRoute == Init /\ [][NextRoute]_vars

\* one request to velog-trending
NextVelog ==
  \/ \E timeframe \in Timeframes : GetTimeframe(timeframe)
  \/ \E answer \in UpstreamAnswers : UpstreamAnswered(answer)

SpecVelog == Init /\ [][NextVelog]_vars

(***************************************************************************)
(* The send paths (maskedSay, maskedChatUpdate, the approve_tool and       *)
(* deny_tool actions) over texts of characters.  maskText keeps no state   *)
(* between calls, so a behaviour follows one transmission.                 *)
(***************************************************************************)
CheckMark == "white_check_mark"

CrossMark == "x_mark"

ApprovedText ==
  << CheckMark >> \o
  << " ","T","o","o","l"," ","e","x","e","c","u","t","i","o",
        "n"," ","a","p","p","r","o","v","e","d" >>

DeniedText ==
  << CrossMark >> \o
  << " ","T","o","o","l"," ","e","x","e","c","u","t","i","o",
        "n"," ","d","e","n","i","e","d" >>

\* process.env at construction, as the specification of the send paths draws it
Environments ==
  { << >>,
    << [key   |-> << "S","L","A","C","K","_","B","O","T","_","T","O","K","E",
        "N" >>,
        value |-> << "a","b","_","c","d","e","f","g","_" >>],
       [key   |-> << "P","A","T","H" >>,
        value |-> << "h","u","n","t","e","r","2","h","u","n","t","e","r","2" >>],
       [key   |-> << "A","P","I","_","K","E","Y" >>,
        value |-> << "s","h","o","r","t","1","2" >>] >>,
    << [key   |-> << "d","b","_","p","a","s","s","w","o","r","d" >>,
        value |-> << "h","u","n","t","e","r","2","h","u","n","t","e","r","2" >>],
       [key   |-> << "A","D","M","I","N","_","S","E","C","R","E","T" >>,
        value |-> << "a","p","p","r","o","v","e","d" >>] >>,
    << [key   |-> << "T","O","K","E","N","_","A" >>,
        value |-> << "b","c","d",".",".",".","w","x" >>],
       [key   |-> << "T","O","K","E","N","_","B" >>,
        value |-> << "a","b","c","d","1","2","3","4","w","x","y","z" >>] >> }

\* the pieces the texts handed to the send paths are made of
Tokens ==
  { << "h","i"," " >>,
    << "x","o","x","b","-" >>,
    << "a","-","b","c" >>,
    << "a","b","_","c","d","e","f","g","_" >>,
    << "h","u","n","t","e","r","2","h","u","n","t","e","r","2" >>,
    << "a","b","c","d","1","2","3","4","w","x","y","z" >>,
    << "B","e","a","r","e","r"," " >>,
    << "a","b","c","d","e","f","g","h","i","j","0","1","2","3",
       "4","5","6","7","8","9" >> }

RECURSIVE TextsOf(_)
TextsOf(n) ==
  IF n = 0 THEN { << >> }
  ELSE LET shorter == TextsOf(n - 1)
       IN  shorter \cup { t \o tok : t \in shorter, tok \in Tokens }

Texts == TextsOf(MaxTokens)

\* maskedSay (lines 578-580)
maskedSay(text) ==
  /\ wire = NoWire
  /\ wire' = [path |-> "say", raw |-> text, text |-> maskText(knownSecrets, text)]
  /\ masked' = << maskText(knownSecrets, text) >>
  /\ UNCHANGED << knownSecrets, turnVars, velog, routeVars >>

\* maskedChatUpdate (lines 582-587)
maskedChatUpdate(text) ==
  /\ wire = NoWire
  /\ wire' = [path |-> "chat.update", raw |-> text, text |-> maskText(knownSecrets, text)]
  /\ masked' = << maskText(knownSecrets, text) >>
  /\ UNCHANGED << knownSecrets, turnVars, velog, routeVars >>

\* the approve_tool action (lines 731-742): respond is called with the text
approve_tool ==
  /\ wire = NoWire
  /\ wire' = [path |-> "respond", raw |-> ApprovedText, text |-> ApprovedText]
  /\ UNCHANGED << knownSecrets, masked, turnVars, velog, routeVars >>

\* the deny_tool action (lines 745-756)
deny_tool ==
  /\ wire = NoWire
  /\ wire' = [path |-> "respond", raw |-> DeniedText, text |-> DeniedText]
  /\ UNCHANGED << knownSecrets, masked, turnVars, velog, routeVars >>

\* maskText applied to a text it returned
MaskAgain ==
  /\ Len(masked) = 1
  /\ masked' = Append(masked, maskText(knownSecrets, masked[1]))
  /\ UNCHANGED << knownSecrets, wire, turnVars, velog, routeVars >>

InitMask ==
  /\ InitTurns
  /\ InitRoute
  /\ \E env \in Environments : knownSecrets = collectEnvSecrets(env)
  /\ wire = NoWire
  /\ masked = << >>
  /\ velog = NoRequest

NextMask ==
  \/ \E text \in Texts : maskedSay(text)
  \/ \E text \in Texts : maskedChatUpdate(text)
  \/ approve_tool
  \/ deny_tool
  \/ MaskAgain

SpecMask == InitMask /\ [][NextMask]_vars

(***************************************************************************)
(* What the chat surface shows, read off a turn's log.                     *)
(***************************************************************************)
TerminalStatuses == { "Done", "Error", "Cancelled" }

\* the invocations of updateResponse that put status on the chat surface
PublishesOf(x, status) ==
  { x.sent[i].pub : i \in { j \in 1..Len(x.sent) : x.sent[j].text.status = status } }

TerminalPublishes(x) ==
  { x.sent[i].pub : i \in { j \in 1..Len(x.sent) : x.sent[j].text.status \in TerminalStatuses } }

LastSent(x) == x.sent[Len(x.sent)]

\* the execution is live: it consumes the backend stream and its token is not signalled
Live(t) == Streaming(exec[t]) /\ ~exec[t].aborted

\* the turns of key k
TurnsOf(k) == { t \in Turns : exec[t].key = k }

(***************************************************************************)
(* Claims.                                                                 *)
(***************************************************************************)

\* C1: for every session key, at most one execution is live at any time
\* (live: token not signalled and still consuming the backend stream),
\* whatever the interleaving of handleMessage invocations for the key.
C1_AtMostOneLiveExecution ==
  \A k \in SessionKeys : Cardinality({ t \in TurnsOf(k) : Live(t) }) <= 1

\* C2: once a later turn of the key has started while a turn is streaming,
\* no backend event the turn pulls after that point appends a content part
\* or updates a message.
C2_NoEffectAfterSupersede ==
  \A t \in Turns : exec[t].staleEffects = 0

\* C3: a turn that was superseded while streaming (its token signalled) ends
\* with Cancelled published exactly once, on its last outbound message, with
\* the cancelled marker requested, and never publishes Done.
C3_SupersededEndsCancelled ==
  \A t \in Turns :
    LET x == exec[t]
    IN  x.pc = "ended" /\ x.supersededStreaming /\ x.aborted =>
          /\ Cardinality(PublishesOf(x, "Cancelled")) = 1
          /\ LastSent(x).text.status = "Cancelled"
          /\ LastSent(x).ts = x.posted
          /\ InSeq("stop_button", x.markers)
          /\ PublishesOf(x, "Done") = { }

\* how the turn left the stream loop
EndedAs(x) ==
  IF x.caught = "abort" \/ x.broke THEN "Cancelled"
  ELSE IF x.caught # "none" THEN "Error"
  ELSE "Done"

\* C4: in every turn exactly one terminal status (Done, Error, Cancelled) is
\* published; it is the last status published and it is the one the turn
\* ended with (stream exhausted, error, cancellation).
C4_OneTrueTerminalStatus ==
  \A t \in Turns :
    LET x == exec[t]
    IN  /\ Cardinality(TerminalPublishes(x)) <= 1
        /\ x.pc = "ended" =>
             /\ Cardinality(TerminalPublishes(x)) = 1
             /\ LastSent(x).text.status = EndedAs(x)

\* the part ids message ts shows: those of the last text sent to it
RECURSIVE ShownAt(_, _, _)
ShownAt(sent, ts, i) ==
  IF i = 0 THEN << >>
  ELSE IF sent[i].ts = ts THEN [j \in 1..Len(sent[i].text.parts) |-> sent[i].text.parts[j].id]
  ELSE ShownAt(sent, ts, i - 1)

\* the part ids on the chat surface, message after message
RECURSIVE ShownUpTo(_, _)
ShownUpTo(x, ts) ==
  IF ts = 0 THEN << >> ELSE ShownUpTo(x, ts - 1) \o ShownAt(x.sent, ts, Len(x.sent))

Shown(x) == ShownUpTo(x, x.posted)

\* the part ids any text sent so far carried
EverSent(x) ==
  UNION { { x.sent[i].text.parts[j].id : j \in 1..Len(x.sent[i].text.parts) } :
          i \in 1..Len(x.sent) }

StrictlyIncreasing(s) == \A i \in 1..(Len(s) - 1) : s[i] < s[i + 1]

\* every Working update is longer than the text sent before it
Growing(x) ==
  \A i \in 2..Len(x.sent) :
     x.sent[i].text.status = "Working" => x.sent[i].length > x.sent[i - 1].length

\* the turn is between two backend events or past the loop
Settled(x) == x.pc \notin { "idle", "thinking" } /\ x.event = NoEvent

C6_NothingLostNorDuplicated ==
  \A t \in Turns :
    LET x == exec[t]
    IN  x.pc = "ended" =>
          /\ StrictlyIncreasing(Shown(x))
          /\ EverSent(x) \subseteq Range(Shown(x))

\* C10: a failed chat-surface call never reaches the catch block that ends
\* the turn.
C10_TransportFailureTolerated ==
  \A t \in Turns : exec[t].caught # "transport"

\* C7: every transmitted text is maskText of the text handed to the send path.
C7_EverySendMasked ==
  wire.path # "none" => wire.text = maskText(knownSecrets, wire.raw)

\* C8: a text sent through maskedSay or maskedChatUpdate contains no
\* registered secret value.
C8_NoRegisteredSecretInOutput ==
  wire.path \in { "say", "chat.update" } =>
    \A i \in 1..Len(knownSecrets) : ~Includes(wire.text, knownSecrets[i].value)

\* C9: maskText is idempotent.
C9_MaskTextIdempotent ==
  Len(masked) = 2 => masked[2] = masked[1]

\* C11: a turn whose backend stream raised a non-cancellation error has
\* appended the error part, shown Error (when the chat surface took the
\* update), called for the error marker, cleaned up its files and is
\* unregistered when it ends.
C11_BackendErrorHandled ==
  \A t \in Turns :
    LET x == exec[t]
    IN  x.pc = "ended" /\ x.caught = "backend" =>
          /\ \E i \in 1..Len(x.arrived) : x.arrived[i].kind = "error"
          /\ ~x.transportFailed => LastSent(x).text.status = "Error"
          /\ InSeq("x", x.markers)
          /\ x.hasFiles => x.cleanedUp
          /\ activeControllers[x.key] # t

\* C12: a cleanup timer armed by an earlier turn never clears the key's
\* entries while a newer turn of the key is running or within its own
\* inactivity window.
C12_StaleCleanupCancelled ==
  \A t \in Turns : exec[t].timer # "stale"

\* C13: at most one status marker is on the original message of a key at
\* any time.
C13_AtMostOneMarker ==
  \A k \in SessionKeys : Cardinality(reactions[k]) <= 1

\* the turns of key k that have started, and the most recently started one
Started(k) == { t \in TurnsOf(k) : exec[t].pc # "idle" }

Latest(k) == SetMax(Started(k))

\* C14: once every execution of a key has terminated, the terminal marker of
\* the most recently started one is on the original message (no older
\* execution replaced it).
C14_MarkerOfLatestExecution ==
  \A k \in SessionKeys :
    (Started(k) # { } /\ \A t \in Started(k) : exec[t].pc = "ended") =>
       LET x == exec[Latest(k)]
       IN  x.markers[Len(x.markers)] \in reactions[k]

\* whether the upstream answer holds a line with a data array
HasDataLine(answer) ==
  /\ answer.kind = "status" /\ answer.ok
  /\ \E i \in 1..Len(answer.lines) : answer.lines[i].kind = "data"

\* C15: an invalid timeframe is answered 400 with no upstream request; a valid
\* one is answered 200 with count equal to the number of items, or 502 when
\* the upstream request, its parsing or the mapping of an item failed; there
\* is no other answer.
C15_VelogAnswers ==
  velog.pc = "answered" =>
    IF velog.timeframe \notin VALID_TIMEFRAMES
      THEN velog.status = 400 /\ velog.upstreamRequests = 0
      ELSE \/ /\ velog.status = 200
              /\ velog.body.count = Len(velog.body.items)
              /\ HasDataLine(velog.upstream)
           \/ /\ velog.status = 502
              /\ \/ ~HasDataLine(velog.upstream)
                 \/ \E i \in 1..Len(velog.upstream.lines) :
                       /\ velog.upstream.lines[i].kind = "data"
                       /\ InSeq("nouser", velog.upstream.lines[i].data)

\* C15 witness: a valid timeframe answered 200 with two items
C15_Witness ==
  /\ velog.pc = "answered" /\ velog.timeframe = "week"
  /\ velog.status = 200 /\ velog.body.count = 2

\* C16: every text sent with more than one content part is at most
\* SLACK_MAX_LENGTH long, whatever its status header (stated for the turns
\* whose chat-surface calls all succeeded).
C16_MultiPartWithinCeiling ==
  \A t \in Turns :
    ~exec[t].transportFailed =>
      \A i \in 1..Len(exec[t].sent) :
         Len(exec[t].sent[i].text.parts) > 1 => exec[t].sent[i].length <= SLACK_MAX_LENGTH

\* C17: a turn that caught an error other than a cancellation has shown the
\* Error status on some message by the time its catch block has published.
C17_ErrorShownWithoutMessage ==
  \A t \in Turns :
    LET x == exec[t]
    IN  (x.pc = "catch_cleanup" /\ x.caught \notin { "none", "abort" }) =>
          PublishesOf(x, "Error") # { }

\* C18: a malformed tool input never takes the turn to its catch block.
C18_MalformedToolInputTolerated ==
  \A t \in Turns : exec[t].caught # "format"

\* C19: a result text appended as content part was not shown earlier in the
\* turn.
C19_ResultShownOnce ==
  \A t \in Turns :
    LET shown == exec[t].shown
    IN  \A j \in 1..Len(shown) :
          shown[j].kind = "result" =>
            \A i \in 1..(j - 1) : shown[i].text # shown[j].text

\* C20: a task-list message that is not the session's first is posted only
\* as fallback of a failed update, or after a cleanup that was due forgot the
\* previous one.
C20_OneTaskListMessage ==
  \A k \in SessionKeys :
    LET log == todoPosts[k]
    IN  \A j \in 2..Len(log) :
          (log[j].kind = "post" /\ ~log[j].fallback) =>
             (log[j - 1].kind = "forgotten" /\ ~log[j - 1].stale)
\* C22: while an execution is consuming its stream and has not been
\* cancelled, the controller registered under its key is its own (the end of
\* a superseded execution never unregisters the execution that superseded it).
C22_OwnControllerRegistered ==
  \A t \in Turns :
    (Streaming(exec[t]) /\ ~exec[t].aborted) => activeControllers[exec[t].key] = t

\* the turn is inside updateMessageReaction, between its calls
InReaction(x) == x.pc \in { "rx_remove", "rx_add" }

\* C24: outside a call of updateMessageReaction the markers on the original
\* message of a key are exactly the marker recorded in currentReactions for
\* it: the recorded marker is applied, and no other marker remains.
C24_RecordedMarkerAgreesWithSurface ==
  \A k \in SessionKeys :
    (\A t \in TurnsOf(k) : ~InReaction(exec[t])) =>
       reactions[k] = IF currentReactions[k] = "none" THEN { }
                                                      ELSE { currentReactions[k] }
\* the blocks of an assistant message other than the task-list invocation
NotTodoWrite(b) == ~(b.type = "tool_use" /\ b.name = "TodoWrite")

\* C25: when the tool branch has rendered an assistant event, a content part
\* was appended for it that holds every text block and every tool invocation
\* of the event other than TodoWrite, wherever the TodoWrite block stands
\* (an event whose rendering threw is left to C18).
C25_OnlyTaskListSuppressed ==
  [][\A t \in Turns :
       (/\ exec[t].event # NoEvent /\ exec'[t].event = NoEvent
        /\ exec'[t].caught # "format"
        /\ SumLen(SelectSeq(exec[t].event.content, NotTodoWrite)) > 0) =>
          /\ Len(exec'[t].arrived) = Len(exec[t].arrived) + 1
          /\ exec'[t].arrived[Len(exec'[t].arrived)].kind = "tool"
          /\ exec'[t].arrived[Len(exec'[t].arrived)].len >=
                SumLen(SelectSeq(exec[t].event.content, NotTodoWrite))]_vars
\* the aggregate marker of a task list, as the specification words it
AggregateMarker(td) ==
  IF td = << >> THEN "unchanged"
  ELSE IF \A i \in 1..Len(td) : td[i].status = "completed" THEN "white_check_mark"
  ELSE IF \E i \in 1..Len(td) : td[i].status = "in_progress"
    THEN "arrows_counterclockwise"
  ELSE "clipboard"

\* C21: after a significant change of the task list the aggregate marker is
\* recomputed from the new list: all completed -> done, else any in progress
\* -> progress, else pending, and it is the marker set on the original
\* message; for an empty list the marker stays what it was (the gear marker
\* of the tool event).
C21_AggregateMarkerRecomputed ==
  \A t \in Turns :
    LET x == exec[t]
        n == Len(x.progress)
    IN  /\ \A i \in 1..n : x.progress[i].marker = AggregateMarker(x.progress[i].todos)
        /\ (x.pc = "pull" /\ (todos[x.key] # << >> \/ n > 0)) =>
              (n > 0 /\ x.progress[n].todos = todos[x.key])
        /\ (x.pc = "rx_add" /\ x.rxRet = "tool_render") =>
              x.rxNew = AggregateMarker(x.newTodos)
        /\ x.pc = "tool_render" =>
              /\ x.newTodos # << >>
              /\ reactions[x.key] = { AggregateMarker(x.newTodos) }
              /\ currentReactions[x.key] = AggregateMarker(x.newTodos)
        /\ (x.pc = "pull" /\ n > 0 /\ x.progress[n].marker = "unchanged") =>
              currentReactions[x.key] = "gear"

\* C21 witness: the progress marker was set for a list with an item in
\* progress, and a later empty list left the marker alone
C21_Witness ==
  /\ exec[1].pc = "pull" /\ Len(exec[1].progress) = 2
  /\ exec[1].progress[1].marker = "arrows_counterclockwise"
  /\ exec[1].progress[2].marker = "unchanged"
  /\ currentReactions[exec[1].key] = "gear"
\* C23: when cancelAllRequests has returned, every execution that was
\* running at that time, under whatever key, has its cancellation token
\* signalled, and the call left the controller registry empty.
C23_CancelAllSignalsEveryExecution ==
  cancelLog.calls > 0 =>
    /\ \A t \in cancelLog.running : exec[t].aborted
    /\ cancelLog.registered = { }

\* C26: a message begins at most one turn, whichever of its events are
\* delivered and whether or not the bot's identity could be resolved, and a
\* message of the bot itself begins none.
C26_AtMostOneTurnPerMessage ==
  /\ Cardinality(startedBy) <= 1
  /\ inbound.user = "B" => startedBy = { }

\* C27: in a channel that is no direct message, the message handler begins
\* a turn only for a reply in a thread that is recorded in activeThreads.
C27_ChannelTurnOnlyInActiveThread ==
  [][("message" \notin startedBy /\ "message" \in startedBy' /\ ~isDM(inbound.channel)) =>
       (inbound.thread_ts # "none" /\ threadKey(inbound) \in activeThreads)]_vars

=============================================================================
